---- MODULE Spec2Model ----
(***************************************************************************)
(* Model of src/app.py: a Flask service with three routes (GET /health,    *)
(* GET /users, POST /user) in front of a DynamoDB table and an S3 bucket.  *)
(*                                                                         *)
(* Representation.  A Python str is a sequence of chunks (TLA+ strings),   *)
(* so that concatenation (f-strings) and str.split are computed and not    *)
(* assumed: "" is <<>>, "Ann" is <<"Ann">>, "pic.png" is                   *)
(* <<"pic", ".", "png">>.  A chunk other than "." holds no '.'.            *)
(* A value that may be None (dict.get, form.get) is PyNone or PyStr(s).    *)
(* A dict is a function whose DOMAIN is its key set.                       *)
(***************************************************************************)
EXTENDS Integers, Sequences, FiniteSets, TLC

\* ------------------------------------------------------------- bounds
\* Requests received in one behaviour, and requests in flight at once.
MaxRequests == 2
NumWorkers == 2

\* ------------------------------------------------- program constants
S3_BUCKET == "prima-tech-challenge"
\* The literal prefix of the f-string that builds avatar_url.
AVATAR_URL_PREFIX == "http://localhost:4566/"

\* ------------------------------------------------------ Python values
\* None, or the str s, where a value may be None: None is the empty tuple
\* and the str s the 1-tuple of s, so that None differs from every str.
PyNone == << >>
PyStr(s) == << s >>
\* The str "".
EmptyStr == << >>
\* `not v` for v being None or a str.
Falsy(v) == v = PyNone \/ v[1] = EmptyStr
\* d.get(k): the value under k, None when k is no key of d.
DictGet(d, k) == IF k \in DOMAIN d THEN PyStr(d[k]) ELSE PyNone
EmptyDict == << >>

\* s.split("."): the parts of s between the '.' chunks, at least one part.
RECURSIVE Split(_)
Split(s) ==
    IF \A i \in 1..Len(s) : s[i] # "."
    THEN << s >>
    ELSE LET i == CHOOSE k \in 1..Len(s) :
                      s[k] = "." /\ \A j \in 1..(k - 1) : s[j] # "."
         IN  << SubSeq(s, 1, i - 1) >> \o Split(SubSeq(s, i + 1, Len(s)))

\* file.filename.split(".")[-1]
FileExt(filename) == LET parts == Split(filename) IN parts[Len(parts)]

\* str(uuid.uuid4()): the n-th identifier drawn by the process. uuid4 draws
\* 122 random bits; the model takes the draws to be pairwise distinct.
UUIDS == << "uuid-01", "uuid-02", "uuid-03", "uuid-04", "uuid-05", "uuid-06",
            "uuid-07", "uuid-08", "uuid-09", "uuid-10", "uuid-11", "uuid-12",
            "uuid-13", "uuid-14", "uuid-15", "uuid-16" >>
\* A generator that returns the same identifier at every call.
uuid4_repeat(n) == << UUIDS[1] >>
uuid4(n) == << UUIDS[n] >>

\* f"{uuid.uuid4()}.{file_ext}"
AvatarFilename(u, file_ext) == u \o << "." >> \o file_ext
\* f"http://localhost:4566/{S3_BUCKET}/{avatar_filename}"
AvatarUrl(avatar_filename) ==
    << AVATAR_URL_PREFIX, S3_BUCKET, "/" >> \o avatar_filename
\* A JSON path that sets a placeholder image URL instead of "".
JsonAvatarUrlStale == AvatarUrl(<< "default", ".", "png" >>)
\* avatar_url = "" on the JSON path.
JsonAvatarUrl == EmptyStr

\* ----------------------------------------------------------- requests
\* The body of a request as request.get_json() sees it: text that does not
\* parse, or the parsed value (an object with its fields, a non-empty array).
JsonMalformed == [kind |-> "malformed", fields |-> EmptyDict]
JsonArray == [kind |-> "array", fields |-> EmptyDict]
JsonObject(f) == [kind |-> "object", fields |-> f]

AnnFields == ("name" :> << "Ann" >>) @@ ("email" :> << "ann@x.com" >>)
BobFields == ("name" :> << "Bob" >>) @@ ("email" :> << "bob@x.com" >>)
JsonBodies ==
    { JsonMalformed,
      JsonArray,
      JsonObject(EmptyDict),
      JsonObject(AnnFields),
      JsonObject("name" :> << "Ann" >>),
      JsonObject(("name" :> EmptyStr) @@ ("email" :> << "ann@x.com" >>)) }
\* request.files: empty, or the field "avatar" with the uploaded file.
File(filename) == [filename |-> filename, content |-> "bytes"]
NoFiles == EmptyDict
Avatar(filename) == "avatar" :> File(filename)
PicPng == << "pic", ".", "png" >>
ATarGz == << "a", ".", "tar", ".", "gz" >>
NoDot == << "avatar" >>

JsonRequest(ct, json) ==
    [content_type |-> ct, json |-> json, form |-> EmptyDict, files |-> EmptyDict]
FormRequest(form, files) ==
    [content_type |-> "multipart/form-data", json |-> JsonMalformed,
     form |-> form, files |-> files]
\* Forms with both fields, without name, and with an empty email; with and
\* without the file field.
FormRequests ==
    { FormRequest(BobFields, NoFiles),
      FormRequest(BobFields, Avatar(PicPng)),
      FormRequest(BobFields, Avatar(ATarGz)),
      FormRequest(BobFields, Avatar(NoDot)),
      FormRequest("email" :> << "bob@x.com" >>, NoFiles),
      FormRequest("email" :> << "bob@x.com" >>, Avatar(PicPng)),
      FormRequest(("name" :> << "Bob" >>) @@ ("email" :> EmptyStr), NoFiles) }
\* POST /user requests: JSON bodies marked application/json, a JSON body
\* marked text/plain, and multipart forms.
CreateRequests ==
    { JsonRequest("application/json", j) : j \in JsonBodies }
    \cup { JsonRequest("text/plain", JsonObject(AnnFields)) }
    \cup FormRequests
NoRequest == JsonRequest("", JsonMalformed)

\* -------------------------------------------------------------- state
VARIABLES
    table,       \* the DynamoDB table "users": id -> item
    objects,     \* the object store: <<bucket, key>> -> object body
    workers,     \* per request in flight: position in create_user and its locals
    log,         \* the exchanges completed so far, in order of completion
    uuid_calls   \* number of uuid.uuid4() calls made so far
vars == << table, objects, workers, log, uuid_calls >>

Workers == 1..NumWorkers
Idle ==
    [pc |-> "idle", req |-> NoRequest, user_id |-> EmptyStr, name |-> PyNone,
     email |-> PyNone, avatar_url |-> EmptyStr, avatar_filename |-> EmptyStr]

\* A record written to the table by another writer, without avatar_url.
LegacyId == << "legacy-1" >>
LegacyItem ==
    [id |-> [S |-> LegacyId], name |-> [S |-> << "Old" >>],
     email |-> [S |-> << "old@x.com" >>]]

Init ==
    /\ table \in { EmptyDict, LegacyId :> LegacyItem }
    /\ objects = EmptyDict
    /\ workers = [w \in Workers |-> Idle]
    /\ log = << >>
    /\ uuid_calls = 0

\* ---------------------------------------------------------- responses
\* One completed exchange: the route, the request, the status and body
\* returned, and what the handler did (the id it generated, the key it
\* uploaded under, how its put_item call ended).
Exchange(op, req, status, body, user_id, uploaded, put) ==
    [op |-> op, req |-> req, status |-> status, body |-> body,
     user_id |-> user_id, uploaded |-> uploaded, put |-> put]
\* The response Flask builds when a handler raises: the exception's own
\* status for an HTTPException (BadRequest: 400), 500 for any other.
FrameworkError(status) == [html |-> status]

Respond(w, e) ==
    /\ log' = Append(log, e)
    /\ workers' = [workers EXCEPT ![w] = Idle]

InFlight == { w \in Workers : workers[w].pc # "idle" }
\* The host hands a new request to a free worker; workers are anonymous,
\* so the lowest free one stands for any of them.
Accepts(w) ==
    /\ workers[w].pc = "idle"
    /\ \A v \in Workers : v < w => workers[v].pc # "idle"
    /\ Len(log) + Cardinality(InFlight) < MaxRequests

\* ------------------------------------------------------- GET /health
HealthCheck(w) ==
    /\ Accepts(w)
    /\ Respond(w, Exchange("health", NoRequest, 200, [status |-> "ok"],
                           EmptyStr, EmptyStr, "none"))
    /\ UNCHANGED << table, objects, uuid_calls >>

\* -------------------------------------------------------- GET /users
\* A mapping without the "" default: item.get("avatar_url") rendered as is.
ItemToUserNoDefault(item) ==
    [id |-> item.id.S, name |-> item.name.S, email |-> item.email.S,
     avatar_url |-> IF "avatar_url" \in DOMAIN item THEN item.avatar_url.S
                    ELSE << "None" >>]
\* item.get("avatar_url", {}).get("S", "") and the three required fields.
ItemToUser(item) ==
    [id |-> item.id.S, name |-> item.name.S, email |-> item.email.S,
     avatar_url |-> IF "avatar_url" \in DOMAIN item THEN item.avatar_url.S
                    ELSE EmptyStr]
\* dynamodb.scan(TableName=...)["Items"]: every item of the table, in an
\* order the store chooses.
ScanOrders(t) ==
    { s \in [1..Cardinality(DOMAIN t) -> DOMAIN t] :
        \A i, j \in DOMAIN s : i # j => s[i] # s[j] }

GetUsers(w) ==
    /\ Accepts(w)
    /\ \E order \in ScanOrders(table) :
         LET users == [i \in DOMAIN order |-> ItemToUser(table[order[i]])]
         IN  Respond(w, Exchange("list", NoRequest, 200, users,
                                 EmptyStr, EmptyStr, "none"))
    /\ UNCHANGED << table, objects, uuid_calls >>

\* dynamodb.scan raises (store unreachable): nothing catches it.
GetUsersScanRaises(w) ==
    /\ Accepts(w)
    /\ Respond(w, Exchange("list", NoRequest, 500, FrameworkError(500),
                           EmptyStr, EmptyStr, "none"))
    /\ UNCHANGED << table, objects, uuid_calls >>

\* --------------------------------------------------------- POST /user
\* `not data` for the value get_json() returned: {} is falsy, an object
\* with a key and a non-empty array are truthy.
JsonTruthy(json) ==
    \/ json.kind = "array"
    \/ json.kind = "object" /\ DOMAIN json.fields # {}

\* if not name or not email
MissingNameOrEmail(name, email) == Falsy(name) \/ Falsy(email)

\* The validation and what follows it up to the next store call: the 400
\* response, or on to put_item. `uploaded` is the key this request has
\* uploaded under, "" when it has uploaded nothing.
Validate(w, st, uploaded) ==
    IF MissingNameOrEmail(st.name, st.email)
    THEN Respond(w, Exchange("create", st.req, 400,
                             [error |-> "Missing 'name' or 'email'"],
                             st.user_id, uploaded, "none"))
    ELSE /\ workers' = [workers EXCEPT ![w] = [st EXCEPT !.pc = "put"]]
         /\ log' = log

\* create_user from its entry to its first store call or early return.
CreateUser(w) ==
    /\ Accepts(w)
    /\ \E req \in CreateRequests :
         LET user_id == uuid4(uuid_calls + 1)
             st0 == [Idle EXCEPT !.req = req, !.user_id = user_id]
         IN  IF req.content_type = "application/json"
             THEN /\ uuid_calls' = uuid_calls + 1
                  /\ IF req.json.kind = "malformed"
                     THEN \* get_json() raises BadRequest
                          Respond(w, Exchange("create", req, 400, FrameworkError(400),
                                              user_id, EmptyStr, "none"))
                     ELSE IF ~JsonTruthy(req.json)
                     THEN Respond(w, Exchange("create", req, 400,
                                              [error |-> "Invalid JSON"],
                                              user_id, EmptyStr, "none"))
                     ELSE IF req.json.kind # "object"
                     THEN \* data.get raises AttributeError
                          Respond(w, Exchange("create", req, 500, FrameworkError(500),
                                              user_id, EmptyStr, "none"))
                     ELSE Validate(w, [st0 EXCEPT
                                         !.name = DictGet(req.json.fields, "name"),
                                         !.email = DictGet(req.json.fields, "email"),
                                         !.avatar_url = JsonAvatarUrl],
                                   EmptyStr)
             ELSE LET st1 == [st0 EXCEPT !.name = DictGet(req.form, "name"),
                                         !.email = DictGet(req.form, "email")]
                  IN  IF "avatar" \in DOMAIN req.files
                      THEN LET file == req.files["avatar"]
                               file_ext == FileExt(file.filename)
                               avatar_filename ==
                                   AvatarFilename(uuid4(uuid_calls + 2), file_ext)
                           IN  /\ uuid_calls' = uuid_calls + 2
                               /\ workers' = [workers EXCEPT ![w] =
                                     [st1 EXCEPT !.pc = "upload",
                                                 !.avatar_filename = avatar_filename]]
                               /\ log' = log
                      ELSE /\ uuid_calls' = uuid_calls + 1
                           /\ Validate(w, [st1 EXCEPT !.avatar_url = EmptyStr], EmptyStr)
    /\ UNCHANGED << table, objects >>

\* s3.upload_fileobj(file, S3_BUCKET, avatar_filename) returns: the object
\* is stored; then avatar_url is built and the fields are validated.
UploadFileobj(w) ==
    LET st == workers[w]
        file == st.req.files["avatar"]
    IN  /\ st.pc = "upload"
        /\ objects' = (<< S3_BUCKET, st.avatar_filename >> :> file.content) @@ objects
        /\ Validate(w, [st EXCEPT !.avatar_url = AvatarUrl(st.avatar_filename)],
                    st.avatar_filename)
        /\ UNCHANGED << table, uuid_calls >>

\* s3.upload_fileobj raises (bucket missing, store unreachable): the call is
\* outside the try block, nothing catches it.
UploadFileobjRaises(w) ==
    LET st == workers[w]
    IN  /\ st.pc = "upload"
        /\ Respond(w, Exchange("create", st.req, 500, FrameworkError(500),
                               st.user_id, EmptyStr, "none"))
        /\ UNCHANGED << table, objects, uuid_calls >>

\* The Item argument of put_item.
UserItem(st) ==
    [id |-> [S |-> st.user_id], name |-> [S |-> st.name[1]],
     email |-> [S |-> st.email[1]], avatar_url |-> [S |-> st.avatar_url]]
\* A write that drops every other item of the table.
PutReplacesTable(t, item) == (item.id.S :> item)
\* The table after the store has applied put_item: the item replaces
\* whatever was stored under its key, the attribute id.
PutApplied(t, item) == (item.id.S :> item) @@ t

CreatedResponse(st) ==
    [message |-> "User created successfully", id |-> st.user_id,
     avatar_url |-> st.avatar_url]
CreatedStatus == 201
\* An except branch that answers like the success branch.
SaveFailedStatusAsCreated == CreatedStatus
SaveFailedStatus == 500

\* dynamodb.put_item returns: 201.
PutItem(w) ==
    LET st == workers[w]
    IN  /\ st.pc = "put"
        /\ table' = PutApplied(table, UserItem(st))
        /\ Respond(w, Exchange("create", st.req, CreatedStatus, CreatedResponse(st),
                               st.user_id, st.avatar_filename, "ok"))
        /\ UNCHANGED << objects, uuid_calls >>

\* dynamodb.put_item raises: the except branch answers 500. The store may
\* have rejected the write, or applied it and failed to answer (a timeout
\* reading the response).
PutItemRaises(w) ==
    LET st == workers[w]
    IN  /\ st.pc = "put"
        /\ \E applied \in BOOLEAN :
             table' = IF applied THEN PutApplied(table, UserItem(st)) ELSE table
        /\ Respond(w, Exchange("create", st.req, SaveFailedStatus,
                               [error |-> "Failed to save user",
                                details |-> "str(e)"],
                               st.user_id, st.avatar_filename, "raised"))
        /\ UNCHANGED << objects, uuid_calls >>

Next ==
    \E w \in Workers :
        \/ HealthCheck(w)
        \/ GetUsers(w)
        \/ GetUsersScanRaises(w)
        \/ CreateUser(w)
        \/ UploadFileobj(w)
        \/ UploadFileobjRaises(w)
        \/ PutItem(w)
        \/ PutItemRaises(w)

Spec == Init /\ [][Next]_vars

\* ===================================================== claims: helpers
Range(f) == { f[x] : x \in DOMAIN f }
IsCreate(i) == log[i].op = "create"
Created(i) == IsCreate(i) /\ log[i].status = 201
Listed(j) == log[j].op = "list" /\ log[j].status = 200
IsMultipart(req) == req.content_type = "multipart/form-data"
\* The value a request supplies for a field, in the encoding of its body.
Supplied(req, k) ==
    IF IsMultipart(req) THEN DictGet(req.form, k) ELSE DictGet(req.json.fields, k)
MissingOrEmpty(req) ==
    Falsy(Supplied(req, "name")) \/ Falsy(Supplied(req, "email"))
HasError(body, text) == "error" \in DOMAIN body /\ body.error = text
\* The record a create stands for: its id and avatar_url as generated, its
\* name and email as supplied.
UserOf(e) ==
    [id |-> e.user_id, name |-> Supplied(e.req, "name")[1],
     email |-> Supplied(e.req, "email")[1]]
\* A put_item call that raised although the store applied the write.
FailedButWritten(i) ==
    IsCreate(i) /\ log[i].put = "raised" /\ log[i].user_id \in DOMAIN table
\* The extension of a file name: what follows its last '.', nothing when it
\* has no '.'.
OriginalExtension(filename) ==
    IF \E i \in DOMAIN filename : filename[i] = "."
    THEN LET last == CHOOSE i \in DOMAIN filename :
                         filename[i] = "." /\ \A j \in DOMAIN filename :
                                                 j > i => filename[j] # "."
         IN  SubSeq(filename, last + 1, Len(filename))
    ELSE EmptyStr

\* C1: the ids of creates answered 201 are pairwise distinct, and a list
\* answered after such a create holds exactly one record with its id, and
\* that record has the create's name, email and avatar_url.
C1_IdsUniqueAndListed ==
    /\ \A i, j \in DOMAIN log :
         (i < j /\ Created(i) /\ Created(j)) => log[i].body.id # log[j].body.id
    /\ \A i, j \in DOMAIN log :
         (i < j /\ Created(i) /\ Listed(j)) =>
            LET users == log[j].body
                hits == { k \in DOMAIN users : users[k].id = log[i].body.id }
            IN  /\ Cardinality(hits) = 1
                /\ \A k \in hits :
                     /\ users[k].name = UserOf(log[i]).name
                     /\ users[k].email = UserOf(log[i]).email
                     /\ users[k].avatar_url = log[i].body.avatar_url
C1_Witness ==
    \E i, j \in DOMAIN log :
        /\ i < j /\ Created(i) /\ Listed(j)
        /\ \E k \in DOMAIN log[j].body : log[j].body[k].id = log[i].body.id

\* C2 as stated: a list answered when no create has been answered 201 is
\* empty; a list answered after N >= 1 creates answered 201, none of the
\* earlier put_item calls having failed after writing, holds exactly N
\* records, one per create with its name and email; and a listed record
\* whose stored item has no avatar_url has avatar_url "". The counts are
\* those of a table no other writer has put records in.
C2_AsStated ==
    \A j \in DOMAIN log :
        Listed(j) =>
            LET users == log[j].body
                creates == { i \in 1..(j - 1) : Created(i) }
                written == { i \in 1..(j - 1) : FailedButWritten(i) }
            IN  /\ (LegacyId \notin DOMAIN table /\ creates = {}) => users = << >>
                /\ (LegacyId \notin DOMAIN table /\ creates # {} /\ written = {}) =>
                      /\ Len(users) = Cardinality(creates)
                      /\ \A i \in creates : \E k \in DOMAIN users :
                            /\ users[k].id = log[i].body.id
                            /\ users[k].name = UserOf(log[i]).name
                            /\ users[k].email = UserOf(log[i]).email
                /\ \A k \in DOMAIN users :
                      "avatar_url" \notin DOMAIN table[users[k].id] =>
                          users[k].avatar_url = EmptyStr

\* C2, amended: as C2, the empty answer too being that of a table in which
\* no failed put_item call has left a record.
C2_ListReturnsCreated ==
    \A j \in DOMAIN log :
        Listed(j) =>
            LET users == log[j].body
                creates == { i \in 1..(j - 1) : Created(i) }
                written == { i \in 1..(j - 1) : FailedButWritten(i) }
            IN  /\ (LegacyId \notin DOMAIN table /\ written = {}) =>
                      /\ Len(users) = Cardinality(creates)
                      /\ \A i \in creates : \E k \in DOMAIN users :
                            /\ users[k].id = log[i].body.id
                            /\ users[k].name = UserOf(log[i]).name
                            /\ users[k].email = UserOf(log[i]).email
                /\ \A k \in DOMAIN users :
                      "avatar_url" \notin DOMAIN table[users[k].id] =>
                          users[k].avatar_url = EmptyStr
\* A list answered after a create answered 201, on a table only creates
\* wrote to, holding that one record.
C2_Witness ==
    \E i, j \in DOMAIN log :
        /\ i < j /\ Created(i) /\ Listed(j) /\ LegacyId \notin DOMAIN table
        /\ Len(log[j].body) = 1

\* C3: a create whose name or email is missing or empty, in the JSON or in
\* the multipart encoding, is answered 400 and put_item is not called for
\* it, the table holding no record of it.
C3_MissingFieldIs400 ==
    \A i \in DOMAIN log :
        (IsCreate(i) /\ MissingOrEmpty(log[i].req)) =>
            /\ log[i].status = 400
            /\ log[i].put = "none"
            /\ log[i].user_id \notin DOMAIN table

\* C4: a create marked application/json whose body is the empty object {}
\* is answered 400 with the body {"error": "Missing 'name' or 'email'"}.
C4_EmptyObjectIsMissingFields ==
    \A i \in DOMAIN log :
        (IsCreate(i)
         /\ log[i].req = JsonRequest("application/json", JsonObject(EmptyDict))) =>
            /\ log[i].status = 400
            /\ HasError(log[i].body, "Missing 'name' or 'email'")

\* C5: a create with a malformed JSON body (a JSON body under a content
\* type other than application/json, or a body that does not parse) is
\* answered 400 with the error "Invalid JSON", and no record is persisted.
MalformedJson(req) ==
    \/ req.content_type = "text/plain"
    \/ req.content_type = "application/json" /\ req.json.kind = "malformed"
C5_MalformedIsInvalidJson ==
    \A i \in DOMAIN log :
        (IsCreate(i) /\ MalformedJson(log[i].req)) =>
            /\ log[i].status = 400
            /\ HasError(log[i].body, "Invalid JSON")
            /\ log[i].put = "none"
            /\ log[i].user_id \notin DOMAIN table

\* C6: a create on the JSON path never calls the object store: it is never
\* at the upload, it has uploaded nothing when answered, every stored object
\* is the upload of a request on the other path, and the record it persists
\* and its 201 response have avatar_url "".
OnJsonPath(req) == req.content_type = "application/json"
C6_JsonPathNoAvatar ==
    /\ \A w \in Workers :
         OnJsonPath(workers[w].req) =>
            /\ workers[w].pc # "upload"
            /\ workers[w].avatar_filename = EmptyStr
            /\ workers[w].avatar_url = EmptyStr
    /\ \A i \in DOMAIN log :
         (IsCreate(i) /\ OnJsonPath(log[i].req)) =>
            /\ log[i].uploaded = EmptyStr
            /\ log[i].status = 201 => log[i].body.avatar_url = EmptyStr
            /\ log[i].user_id \in DOMAIN table =>
                  table[log[i].user_id].avatar_url.S = EmptyStr
    /\ \A o \in DOMAIN objects :
         \/ \E i \in DOMAIN log :
               IsCreate(i) /\ ~OnJsonPath(log[i].req) /\ log[i].uploaded = o[2]
         \/ \E w \in Workers :
               ~OnJsonPath(workers[w].req) /\ workers[w].pc = "put"
               /\ workers[w].avatar_filename = o[2]
C6_Witness ==
    \E i \in DOMAIN log :
        /\ Created(i) /\ OnJsonPath(log[i].req)
        /\ log[i].user_id \in DOMAIN table

\* C7: a multipart create answered 201 that carried an avatar file has
\* uploaded it under a key made of a uuid other than the record id, then
\* ".", then the extension of the original file name; the object is in the
\* bucket under that key, and avatar_url, in the stored record and in the
\* response, is http://<host>/<bucket>/<key> with that bucket and that key.
\* A multipart create answered 201 without the avatar field has uploaded
\* nothing and has avatar_url "".
HasAvatar(req) == "avatar" \in DOMAIN req.files
C7_AvatarKeyAndUrl ==
    \A i \in DOMAIN log :
        (Created(i) /\ IsMultipart(log[i].req)) =>
            LET e == log[i]
                key == e.uploaded
            IN  IF HasAvatar(e.req)
                THEN /\ Len(key) >= 2
                     /\ key[1] \in Range(UUIDS)
                     /\ << key[1] >> # e.user_id
                     /\ key[2] = "."
                     /\ SubSeq(key, 3, Len(key))
                          = OriginalExtension(e.req.files["avatar"].filename)
                     /\ << S3_BUCKET, key >> \in DOMAIN objects
                     /\ e.body.avatar_url
                          = << AVATAR_URL_PREFIX, S3_BUCKET, "/" >> \o key
                     /\ table[e.user_id].avatar_url.S = e.body.avatar_url
                ELSE /\ key = EmptyStr
                     /\ e.body.avatar_url = EmptyStr
                     /\ table[e.user_id].avatar_url.S = EmptyStr

\* C8 as stated: a create whose put_item call raised is answered 500 with
\* the error "Failed to save user" and a details field, the table holds no
\* record of it, and what it uploaded is still in the bucket; a create is
\* answered 201 exactly when its put_item call returned.
C8_AsStated ==
    \A i \in DOMAIN log :
        IsCreate(i) =>
            /\ log[i].put = "raised" =>
                  /\ log[i].status = 500
                  /\ HasError(log[i].body, "Failed to save user")
                  /\ "details" \in DOMAIN log[i].body
                  /\ log[i].user_id \notin DOMAIN table
                  /\ log[i].uploaded # EmptyStr =>
                        << S3_BUCKET, log[i].uploaded >> \in DOMAIN objects
            /\ log[i].status = 201 <=> log[i].put = "ok"

\* C8, amended: as C8, except that the table may hold the record of the
\* request, as the failed put_item call itself wrote it (id, name, email
\* and avatar_url of the request): the handler does not write again.
C8_SaveFailureIs500 ==
    \A i \in DOMAIN log :
        IsCreate(i) =>
            /\ log[i].put = "raised" =>
                  /\ log[i].status = 500
                  /\ HasError(log[i].body, "Failed to save user")
                  /\ "details" \in DOMAIN log[i].body
                  /\ log[i].user_id \in DOMAIN table =>
                        /\ ItemToUser(table[log[i].user_id]).name = UserOf(log[i]).name
                        /\ ItemToUser(table[log[i].user_id]).email = UserOf(log[i]).email
                        /\ ItemToUser(table[log[i].user_id]).avatar_url
                             = IF log[i].uploaded = EmptyStr THEN EmptyStr
                               ELSE AvatarUrl(log[i].uploaded)
                  /\ log[i].uploaded # EmptyStr =>
                        << S3_BUCKET, log[i].uploaded >> \in DOMAIN objects
            /\ log[i].status = 201 <=> log[i].put = "ok"
\* A create with an uploaded avatar whose put_item call raised.
C8_Witness ==
    \E i \in DOMAIN log :
        /\ IsCreate(i) /\ log[i].put = "raised" /\ log[i].status = 500
        /\ log[i].uploaded # EmptyStr
        /\ << S3_BUCKET, log[i].uploaded >> \in DOMAIN objects

\* C9: every step keeps each record of the table as it is (same id, name,
\* email, avatar_url), and a step that answers a health or a list request
\* changes neither the table nor the bucket.
Last(s) == s[Len(s)]
C9_Step ==
    /\ \A id \in DOMAIN table : id \in DOMAIN table' /\ table'[id] = table[id]
    /\ (Len(log') > Len(log) /\ Last(log').op \in { "health", "list" }) =>
          (table' = table /\ objects' = objects)
C9_RecordsNeverChange == [][C9_Step]_vars
\* Two creates have each persisted a record, the second after the first.
C9_Witness ==
    \E i, j \in DOMAIN log :
        /\ i < j /\ Created(i) /\ Created(j)
        /\ log[i].user_id \in DOMAIN table /\ log[j].user_id \in DOMAIN table

\* C10: a multipart create that carries an avatar file but lacks name or
\* email is answered 400 and persists no record, and has by then written
\* one object to the bucket, which no record references.
C10_UploadBeforeValidation ==
    \A i \in DOMAIN log :
        (IsCreate(i) /\ IsMultipart(log[i].req) /\ HasAvatar(log[i].req)
         /\ MissingOrEmpty(log[i].req)) =>
            /\ log[i].status = 400
            /\ log[i].put = "none"
            /\ log[i].user_id \notin DOMAIN table
            /\ log[i].uploaded # EmptyStr
            /\ << S3_BUCKET, log[i].uploaded >> \in DOMAIN objects
            /\ \A id \in DOMAIN table :
                  ItemToUser(table[id]).avatar_url # AvatarUrl(log[i].uploaded)

====
